---- MODULE Spec2Model ----
(***************************************************************************)
(* Model of LedgerHardwareProvider (src/src/contexts/Hardware/Ledger.tsx): *)
(* the React state slots of the provider, their refs, the handlers the     *)
(* context exposes, and the asynchronous executeLedgerLoop / checkPaired   *)
(* routines stepping from one await to the next against a nondeterministic *)
(* transport provider.                                                     *)
(*                                                                         *)
(* A useState slot is two variables: the value React holds after the last  *)
(* setState call (xPending) and the value the closures of the last render  *)
(* captured (x).  Render copies the first into the second.  The three      *)
(* transport slots are never read by the provider's own code, only written *)
(* and handed to the context, so for them only the value React holds is    *)
(* modelled.                                                               *)
(***************************************************************************)
EXTENDS Integers, Sequences, FiniteSets, TLC

\* ------------------------------------------------------------------ bounds
\* Invocations of executeLedgerLoop whose promises the callers hold at a time.
MaxLoops == 2
\* Invocations of checkPaired whose promises the callers hold at a time.
MaxChecks == 1
\* Open handles counted after the routine that obtained them was forgotten.
MaxLeaked == 1
\* Account indexes a caller may configure: 0..MaxAccountIndex.
MaxAccountIndex == 2
\* 'failure' acknowledgements the callers report per rendered history.
MaxFailureCodes == 1
\* History length up to which callers report status codes while device
\* tasks are modelled beside them (specification Spec).
MaxShortHistory == 1

\* ------------------------------------------------------- program constants
TOTAL_ALLOWED_STATUS_CODES == 50

\* ------------------------------------------------------------ value domains
\* null / undefined, and a present value, of a nullable slot.
Null == <<>>
Some(x) == <<x>>

\* PairingStatus of ./types: unknown, paired, not-paired.
PairingStatuses == {"unknown", "paired", "not-paired"}
Acks == {"success", "failure"}
StatusCodeNames == {"GettingAddress"}
LedgerTasks == {"get_device_info", "get_address"}
AccountIndexes == 0..MaxAccountIndex

VARIABLES
  isPaired, isPairedPending, isPairedRef,
  isImporting, isImportingPending, isImportingRef,
  statusCodes, statusCodesPending, statusCodesRef,
  transportError, ledgerDeviceInfo, transportResponse,
  loops, checks, open, leaked, lastCall

uiVars == <<isPaired, isPairedPending, isPairedRef,
            isImporting, isImportingPending, isImportingRef,
            statusCodes, statusCodesPending, statusCodesRef>>
slotVars == <<transportError, ledgerDeviceInfo, transportResponse>>
asyncVars == <<loops, checks, open, leaked>>
vars == <<uiVars, slotVars, asyncVars, lastCall>>

\* ------------------------------------------------------------ React state
\* Utils.setStateWithRef(value, setState, ref): hands the value to the state
\* setter and stores it in ref.current, in the same synchronous call.
setStateWithRef(value) == [state |-> value, ref |-> value]

\* The label of the step just taken.
Call(op, args) == [op |-> op, args |-> args]

StatusCodeEntry(ack, statusCode) == [ack |-> ack, statusCode |-> statusCode]

\* Array.prototype.pop applied to a non-empty array: drops the last element.
Pop(s) == SubSeq(s, 1, Len(s) - 1)

\* The variant of NewStatusCodes that forgets to pop.
NewStatusCodes_NoPop(ack, statusCode) ==
  <<StatusCodeEntry(ack, statusCode)>> \o statusCodes

\* Lines 158-163: the array handleNewStatusCode builds from the statusCodes
\* its closure captured at the last render.
NewStatusCodes(ack, statusCode) ==
  LET newStatusCodes == <<StatusCodeEntry(ack, statusCode)>> \o statusCodes
  IN IF Len(newStatusCodes) > TOTAL_ALLOWED_STATUS_CODES
       THEN Pop(newStatusCodes) ELSE newStatusCodes

handleNewStatusCode(ack, statusCode) ==
  LET w == setStateWithRef(NewStatusCodes(ack, statusCode))
  IN /\ statusCodesPending' = w.state
     /\ statusCodesRef' = w.ref
     /\ lastCall' = Call("handleNewStatusCode", <<ack, statusCode>>)
     /\ UNCHANGED <<isPaired, isPairedPending, isPairedRef,
                    isImporting, isImportingPending, isImportingRef,
                    statusCodes, slotVars, asyncVars>>

\* The variant of setIsPaired that updates the state and leaves the ref.
setIsPaired_NoRef(p) ==
  /\ isPairedPending' = p
  /\ lastCall' = Call("setIsPaired", <<p>>)
  /\ UNCHANGED <<isPaired, isPairedRef, isImporting, isImportingPending,
                 isImportingRef, statusCodes, statusCodesPending,
                 statusCodesRef, slotVars, asyncVars>>

setIsPaired(p) ==
  LET w == setStateWithRef(p)
  IN /\ isPairedPending' = w.state
     /\ isPairedRef' = w.ref
     /\ lastCall' = Call("setIsPaired", <<p>>)
     /\ UNCHANGED <<isPaired, isImporting, isImportingPending, isImportingRef,
                    statusCodes, statusCodesPending, statusCodesRef,
                    slotVars, asyncVars>>

\* The state writes of setIsImporting(val), shared with cancelImport.
SetIsImportingWrites(val) ==
  LET w == setStateWithRef(val)
  IN /\ isImportingPending' = w.state
     /\ isImportingRef' = w.ref

\* The state writes of resetStatusCodes(), shared with cancelImport.
ResetStatusCodesWrites ==
  LET w == setStateWithRef(<<>>)
  IN /\ statusCodesPending' = w.state
     /\ statusCodesRef' = w.ref

setIsImporting(val) ==
  /\ SetIsImportingWrites(val)
  /\ lastCall' = Call("setIsImporting", <<val>>)
  /\ UNCHANGED <<isPaired, isPairedPending, isPairedRef, isImporting,
                 statusCodes, statusCodesPending, statusCodesRef,
                 slotVars, asyncVars>>

\* The variant of cancelImport that clears the stored response as well.
cancelImport_ClearsResponse ==
  /\ SetIsImportingWrites(FALSE)
  /\ ResetStatusCodesWrites
  /\ transportResponse' = Null
  /\ lastCall' = Call("cancelImport", <<>>)
  /\ UNCHANGED <<isPaired, isPairedPending, isPairedRef, isImporting,
                 statusCodes, transportError, ledgerDeviceInfo, asyncVars>>

\* The variant of cancelImport that forgets to reset the status codes.
cancelImport_NoReset ==
  /\ SetIsImportingWrites(FALSE)
  /\ lastCall' = Call("cancelImport", <<>>)
  /\ UNCHANGED <<isPaired, isPairedPending, isPairedRef, isImporting,
                 statusCodes, statusCodesPending, statusCodesRef,
                 slotVars, asyncVars>>

cancelImport ==
  /\ SetIsImportingWrites(FALSE)
  /\ ResetStatusCodesWrites
  /\ lastCall' = Call("cancelImport", <<>>)
  /\ UNCHANGED <<isPaired, isPairedPending, isPairedRef, isImporting,
                 statusCodes, slotVars, asyncVars>>

\* The variant of resetStatusCodes that clears the import flag as well.
resetStatusCodes_ClearsImporting ==
  /\ ResetStatusCodesWrites
  /\ SetIsImportingWrites(FALSE)
  /\ lastCall' = Call("resetStatusCodes", <<>>)
  /\ UNCHANGED <<isPaired, isPairedPending, isPairedRef, isImporting,
                 statusCodes, slotVars, asyncVars>>

resetStatusCodes ==
  /\ ResetStatusCodesWrites
  /\ lastCall' = Call("resetStatusCodes", <<>>)
  /\ UNCHANGED <<isPaired, isPairedPending, isPairedRef,
                 isImporting, isImportingPending, isImportingRef,
                 statusCodes, slotVars, asyncVars>>

getIsImporting == isImportingRef

\* A re-render of the provider: every useState call returns the value React
\* holds, and the handlers are re-created over those values.
Render ==
  /\ \/ isPaired # isPairedPending
     \/ isImporting # isImportingPending
     \/ statusCodes # statusCodesPending
  /\ isPaired' = isPairedPending
  /\ isImporting' = isImportingPending
  /\ statusCodes' = statusCodesPending
  /\ lastCall' = Call("render", <<>>)
  /\ UNCHANGED <<isPairedPending, isPairedRef, isImportingPending,
                 isImportingRef, statusCodesPending, statusCodesRef,
                 slotVars, asyncVars>>

\* ------------------------------------------------- the transport provider
\* Device identities a handle may carry; a handle may also carry none
\* (line 92 tests deviceModel before reading it).
DeviceModels == {[id |-> "nanoS", productName |-> "Ledger Nano S"],
                 [id |-> "nanoX", productName |-> "Ledger Nano X"]}
MaybeDeviceModels == {Null} \cup {Some(m) : m \in DeviceModels}

\* Addresses the derivation call may resolve to.
Addresses == {"addrA", "addrB"}

\* What a provider call may reject with.  create() has the distinguishable
\* no-device condition (error id 'NoDevice'); every other rejection carries
\* another id or none.
NoDeviceError == [name |-> "TransportError", id |-> "NoDevice"]
OtherError == [name |-> "TransportStatusError", id |-> "none"]
\* Thrown by the code itself: a property read on undefined.
TypeError == [name |-> "TypeError", id |-> "none"]
CreateErrors == {NoDeviceError, OtherError}
CallErrors == {OtherError}

\* The identity of the handle the n-th create() of a routine returns.
HandleId(owner, i, n) == [owner |-> owner, i |-> i, n |-> n]
Handle(id, model) == [id |-> id, deviceModel |-> model]

\* ------------------------------------------------------ executeLedgerLoop
Loops == 1..MaxLoops
Checks == 1..MaxChecks

TaskSets == SUBSET LedgerTasks
\* options: omitted (undefined), or an object with or without accountIndex.
OptionValues ==
  {Null} \cup {Some([accountIndex |-> a]) :
                 a \in {Null} \cup {Some(n) : n \in AccountIndexes}}

\* A local of executeLedgerLoop per field, and what an observer of the call
\* notes: the create() calls made, the handles obtained, the arguments and
\* the result of the derivation call, the error caught, and the slots as
\* they were when the call was made.
IdleLoop ==
  [pc |-> "idle", tasks |-> {}, options |-> Null, transport |-> Null,
   noDevice |-> FALSE, outcome |-> "pending", creates |-> 0,
   obtained |-> {}, derivation |-> Null, address |-> Null, caught |-> Null,
   before |-> Null]

\* The hardened / non-hardened components of a derivation path.
Hardened(n) == [n |-> n, hardened |-> TRUE]
Plain(n) == [n |-> n, hardened |-> FALSE]

\* Line 142: `44'/354'/${accountIndex}'/0/0`.
DerivationPath(accountIndex) ==
  <<Hardened(44), Hardened(354), Hardened(accountIndex), Plain(0), Plain(0)>>

\* Line 112: options.accountIndex ?? 0, for an options object.
AccountIndexOf(options) ==
  IF options.accountIndex = Null THEN 0 ELSE options.accountIndex[1]

\* The variant of handleErrors with the two status codes exchanged.
handleErrors_Swapped(err) ==
  IF err.id = "NoDevice"
    THEN transportError' = Some([ack |-> "failure", statusCode |-> "AppNotOpen"])
    ELSE transportError' =
           Some([ack |-> "failure", statusCode |-> "DeviceNotConnected"])

handleErrors(err) ==
  IF err.id = "NoDevice"
    THEN transportError' =
           Some([ack |-> "failure", statusCode |-> "DeviceNotConnected"])
    ELSE transportError' = Some([ack |-> "failure", statusCode |-> "AppNotOpen"])

\* The variant of TryBlock with the arguments of handleGetAddress evaluated
\* outside the try block.
TryBlock_OptionsOutside(site) ==
  CASE site \in {"create1", "close1"} -> "info"
    [] site \in {"create2", "deviceModel", "getAddress", "close2"} -> "address"
    [] OTHER -> "none"

\* The try block that encloses each place of executeLedgerLoop that can throw:
\* lines 89-99 (device-info phase) and lines 108-121 (address phase, with the
\* body of handleGetAddress, which is awaited inside it).
TryBlock(site) ==
  CASE site \in {"create1", "close1"} -> "info"
    [] site \in {"create2", "options", "deviceModel", "getAddress", "close2"}
         -> "address"
    [] OTHER -> "none"

\* The variant of EnterAddressPhase that ignores noDevice.
EnterAddressPhase_Always(l) ==
  [l EXCEPT !.pc = "await_create2", !.creates = @ + 1]

\* Line 107-109: the address phase is entered, and create() called, unless
\* noDevice is set; otherwise the routine returns.
EnterAddressPhase(l) ==
  IF ~l.noDevice
    THEN [l EXCEPT !.pc = "await_create2", !.creates = @ + 1]
    ELSE [l EXCEPT !.pc = "done", !.outcome = "resolved"]

\* An error err raised at `site` by invocation i, whose record is l by then:
\* the catch of the enclosing try block runs (lines 100-104, then line 107;
\* or lines 122-125), or the promise rejects.
Throw(i, l, site, err) ==
  LET caught == [l EXCEPT !.caught = Some([site |-> site, err |-> err])]
  IN CASE TryBlock(site) = "info" ->
            /\ loops' = [loops EXCEPT ![i] =
                 EnterAddressPhase([caught EXCEPT !.transport = Null,
                                                  !.noDevice = TRUE])]
            /\ handleErrors(err)
       [] TryBlock(site) = "address" ->
            /\ loops' = [loops EXCEPT ![i] =
                 [caught EXCEPT !.transport = Null, !.pc = "done",
                                !.outcome = "resolved"]]
            /\ handleErrors(err)
       [] OTHER ->
            /\ loops' = [loops EXCEPT ![i] =
                 [caught EXCEPT !.pc = "done", !.outcome = "rejected"]]
            /\ UNCHANGED transportError

LoopCall(i, step) == Call("executeLedgerLoop", <<i, step>>)

\* The variant of Start that clears TransportError when a call is made.
Start_ClearsError(i, tasks, options) ==
  /\ loops[i].pc = "idle"
  /\ LET l == [IdleLoop EXCEPT
                 !.tasks = tasks, !.options = options,
                 !.before = Some([transportError |-> transportError,
                                  ledgerDeviceInfo |-> ledgerDeviceInfo,
                                  transportResponse |-> transportResponse])]
     IN loops' = [loops EXCEPT ![i] =
          IF "get_device_info" \in tasks
            THEN [l EXCEPT !.pc = "await_create1", !.creates = 1]
            ELSE EnterAddressPhase(l)]
  /\ transportError' = Null
  /\ lastCall' = LoopCall(i, "start")
  /\ UNCHANGED <<uiVars, ledgerDeviceInfo, transportResponse, checks, open,
                 leaked>>

\* Lines 81-90 (or 81-88, 107-109): the call, up to its first await.
Start(i, tasks, options) ==
  /\ loops[i].pc = "idle"
  /\ LET l == [IdleLoop EXCEPT
                 !.tasks = tasks, !.options = options,
                 !.before = Some([transportError |-> transportError,
                                  ledgerDeviceInfo |-> ledgerDeviceInfo,
                                  transportResponse |-> transportResponse])]
     IN loops' = [loops EXCEPT ![i] =
          IF "get_device_info" \in tasks
            THEN [l EXCEPT !.pc = "await_create1", !.creates = 1]
            ELSE EnterAddressPhase(l)]
  /\ lastCall' = LoopCall(i, "start")
  /\ UNCHANGED <<uiVars, slotVars, checks, open, leaked>>

\* The variant of Create1Resolve that calls close() without awaiting it and
\* goes on to the address phase.
Create1Resolve_CloseNotAwaited(i, model) ==
  /\ loops[i].pc = "await_create1"
  /\ LET id == HandleId("loop", i, loops[i].creates)
     IN /\ open' = open \cup {id}
        /\ loops' = [loops EXCEPT ![i] =
             EnterAddressPhase([@ EXCEPT !.transport = Some(Handle(id, model)),
                                         !.obtained = @ \cup {id}])]
  /\ ledgerDeviceInfo' = IF model # Null THEN model ELSE ledgerDeviceInfo
  /\ lastCall' = LoopCall(i, "create1")
  /\ UNCHANGED <<uiVars, transportError, transportResponse, checks, leaked>>

\* Lines 90-99: create() resolved; the identity is stored when the handle
\* carries one, and close() is called.
Create1Resolve(i, model) ==
  /\ loops[i].pc = "await_create1"
  /\ LET id == HandleId("loop", i, loops[i].creates)
     IN /\ open' = open \cup {id}
        /\ loops' = [loops EXCEPT ![i] =
             [@ EXCEPT !.transport = Some(Handle(id, model)),
                       !.obtained = @ \cup {id},
                       !.pc = "await_close1"]]
  /\ ledgerDeviceInfo' = IF model # Null THEN model ELSE ledgerDeviceInfo
  /\ lastCall' = LoopCall(i, "create1")
  /\ UNCHANGED <<uiVars, transportError, transportResponse, checks, leaked>>

Create1Reject(i, err) ==
  /\ loops[i].pc = "await_create1"
  /\ Throw(i, loops[i], "create1", err)
  /\ lastCall' = LoopCall(i, "create1")
  /\ UNCHANGED <<uiVars, ledgerDeviceInfo, transportResponse, checks, open, leaked>>

\* Line 99 resolved, then lines 107-109.
Close1Resolve(i) ==
  /\ loops[i].pc = "await_close1"
  /\ open' = open \ {loops[i].transport[1].id}
  /\ loops' = [loops EXCEPT ![i] = EnterAddressPhase(@)]
  /\ lastCall' = LoopCall(i, "close1")
  /\ UNCHANGED <<uiVars, slotVars, checks, leaked>>

\* Line 99 rejected: whether the handle was released is the provider's.
Close1Reject(i, err, released) ==
  /\ loops[i].pc = "await_close1"
  /\ open' = IF released THEN open \ {loops[i].transport[1].id} ELSE open
  /\ Throw(i, loops[i], "close1", err)
  /\ lastCall' = LoopCall(i, "close1")
  /\ UNCHANGED <<uiVars, ledgerDeviceInfo, transportResponse, checks, leaked>>

\* Lines 135-139: the in-progress notice of handleGetAddress.
GettingAddress(accountIndex) ==
  [ack |-> "success", statusCode |-> "GettingAddress",
   body |-> <<"Getting addresess", accountIndex, "in progress.">>]

\* Lines 146-150: what handleGetAddress returns.
handleGetAddressResult(transport, address) ==
  [statusCode |-> "ReceivedAddress",
   device |-> [id |-> transport.deviceModel[1].id,
               productName |-> transport.deviceModel[1].productName],
   body |-> <<address>>]

\* Lines 114-118: { ack: 'success', options, ...result }.
SuccessResponse(options, result) ==
  [ack |-> "success", options |-> options, statusCode |-> result.statusCode,
   device |-> result.device, body |-> result.body]

\* Lines 130-144: handleGetAddress(transport, accountIndex) up to its await,
\* called by invocation i whose record is l by then.  Destructuring an absent
\* deviceModel (line 133) throws before anything is written.
handleGetAddress(i, l, accountIndex) ==
  IF l.transport[1].deviceModel = Null
    THEN /\ Throw(i, l, "deviceModel", TypeError)
         /\ UNCHANGED transportResponse
    ELSE /\ transportResponse' = Some(GettingAddress(accountIndex))
         /\ loops' = [loops EXCEPT ![i] =
              [l EXCEPT !.derivation =
                          Some([path |-> DerivationPath(accountIndex),
                                flag |-> FALSE]),
                        !.pc = "await_getAddress"]]
         /\ UNCHANGED transportError

\* Lines 109-112 (and 121 when get_address is not requested): create()
\* resolved.  Reading accountIndex of omitted options throws (line 112).
Create2Resolve(i, model) ==
  /\ loops[i].pc = "await_create2"
  /\ LET id == HandleId("loop", i, loops[i].creates)
         l == [loops[i] EXCEPT !.transport = Some(Handle(id, model)),
                               !.obtained = @ \cup {id}]
     IN /\ open' = open \cup {id}
        /\ IF "get_address" \notin l.tasks
             THEN /\ loops' = [loops EXCEPT ![i] =
                       [l EXCEPT !.pc = "await_close2"]]
                  /\ UNCHANGED <<transportError, transportResponse>>
             ELSE IF l.options = Null
               THEN /\ Throw(i, l, "options", TypeError)
                    /\ UNCHANGED transportResponse
               ELSE handleGetAddress(i, l, AccountIndexOf(l.options[1]))
  /\ lastCall' = LoopCall(i, "create2")
  /\ UNCHANGED <<uiVars, ledgerDeviceInfo, checks, leaked>>

Create2Reject(i, err) ==
  /\ loops[i].pc = "await_create2"
  /\ Throw(i, loops[i], "create2", err)
  /\ lastCall' = LoopCall(i, "create2")
  /\ UNCHANGED <<uiVars, ledgerDeviceInfo, transportResponse, checks, open, leaked>>

\* The variant of GetAddressResolve that stores the response only if the
\* in-progress notice it wrote is still the stored response.
GetAddressResolve_UnlessOverwritten(i, address) ==
  /\ loops[i].pc = "await_getAddress"
  /\ transportResponse' =
       IF transportResponse =
            Some(GettingAddress(AccountIndexOf(loops[i].options[1])))
         THEN Some(SuccessResponse(loops[i].options[1],
                     handleGetAddressResult(loops[i].transport[1], address)))
         ELSE transportResponse
  /\ loops' = [loops EXCEPT ![i] =
       [@ EXCEPT !.address = Some(address), !.pc = "await_close2"]]
  /\ lastCall' = LoopCall(i, "getAddress")
  /\ UNCHANGED <<uiVars, transportError, ledgerDeviceInfo, checks, open, leaked>>

\* Lines 141-150, 113-121: the derivation call resolved; the response is
\* stored and close() is called.
GetAddressResolve(i, address) ==
  /\ loops[i].pc = "await_getAddress"
  /\ transportResponse' =
       Some(SuccessResponse(loops[i].options[1],
              handleGetAddressResult(loops[i].transport[1], address)))
  /\ loops' = [loops EXCEPT ![i] =
       [@ EXCEPT !.address = Some(address), !.pc = "await_close2"]]
  /\ lastCall' = LoopCall(i, "getAddress")
  /\ UNCHANGED <<uiVars, transportError, ledgerDeviceInfo, checks, open, leaked>>

\* Lines 141, 122-125: the derivation call rejected; the catch drops the
\* handle without closing it.
GetAddressReject(i, err) ==
  /\ loops[i].pc = "await_getAddress"
  /\ Throw(i, loops[i], "getAddress", err)
  /\ lastCall' = LoopCall(i, "getAddress")
  /\ UNCHANGED <<uiVars, ledgerDeviceInfo, transportResponse, checks, open, leaked>>

Close2Resolve(i) ==
  /\ loops[i].pc = "await_close2"
  /\ open' = open \ {loops[i].transport[1].id}
  /\ loops' = [loops EXCEPT ![i] =
       [@ EXCEPT !.pc = "done", !.outcome = "resolved"]]
  /\ lastCall' = LoopCall(i, "close2")
  /\ UNCHANGED <<uiVars, slotVars, checks, leaked>>

Close2Reject(i, err, released) ==
  /\ loops[i].pc = "await_close2"
  /\ open' = IF released THEN open \ {loops[i].transport[1].id} ELSE open
  /\ Throw(i, loops[i], "close2", err)
  /\ lastCall' = LoopCall(i, "close2")
  /\ UNCHANGED <<uiVars, ledgerDeviceInfo, transportResponse, checks, leaked>>

\* The caller lets go of the settled promise of invocation i.  The handles
\* the invocation left open stay open at the provider, held by nobody.
Settle(i) ==
  /\ loops[i].pc = "done"
  /\ LET orphans == loops[i].obtained \cap open
     IN /\ leaked + Cardinality(orphans) <= MaxLeaked
        /\ leaked' = leaked + Cardinality(orphans)
        /\ open' = open \ orphans
  /\ loops' = [loops EXCEPT ![i] = IdleLoop]
  /\ lastCall' = LoopCall(i, "settle")
  /\ UNCHANGED <<uiVars, slotVars, checks>>

\* ------------------------------------------------------------ checkPaired
IdleCheck == [pc |-> "idle", create |-> "none", returned |-> Null]

CheckCall(k, step) == Call("checkPaired", <<k, step>>)

\* Line 73: create() is called and awaited.
CheckPairedStart(k) ==
  /\ checks[k].pc = "idle"
  /\ checks' = [checks EXCEPT ![k] = [@ EXCEPT !.pc = "await_create"]]
  /\ lastCall' = CheckCall(k, "start")
  /\ UNCHANGED <<uiVars, slotVars, loops, open, leaked>>

\* Lines 73-74: create() resolved; the handle is neither kept nor closed.
CheckPairedResolve(k) ==
  /\ checks[k].pc = "await_create"
  /\ open' = open \cup {HandleId("check", k, 1)}
  /\ checks' = [checks EXCEPT ![k] =
       [pc |-> "done", create |-> "resolved", returned |-> Some(TRUE)]]
  /\ lastCall' = CheckCall(k, "create")
  /\ UNCHANGED <<uiVars, slotVars, loops, leaked>>

\* Lines 75-76.
CheckPairedReject(k, err) ==
  /\ checks[k].pc = "await_create"
  /\ checks' = [checks EXCEPT ![k] =
       [pc |-> "done", create |-> "rejected", returned |-> Some(FALSE)]]
  /\ lastCall' = CheckCall(k, "create")
  /\ UNCHANGED <<uiVars, slotVars, loops, open, leaked>>

\* The caller lets go of the value checkPaired returned.
CheckSettle(k) ==
  /\ checks[k].pc = "done"
  /\ LET orphans == {HandleId("check", k, 1)} \cap open
     IN /\ leaked + Cardinality(orphans) <= MaxLeaked
        /\ leaked' = leaked + Cardinality(orphans)
        /\ open' = open \ orphans
  /\ checks' = [checks EXCEPT ![k] = IdleCheck]
  /\ lastCall' = CheckCall(k, "settle")
  /\ UNCHANGED <<uiVars, slotVars, loops>>

\* ---------------------------------------------------------- specifications
Init ==
  /\ isPaired = "unknown" /\ isPairedPending = "unknown"
  /\ isPairedRef = "unknown"
  /\ isImporting = FALSE /\ isImportingPending = FALSE
  /\ isImportingRef = FALSE
  /\ statusCodes = <<>> /\ statusCodesPending = <<>> /\ statusCodesRef = <<>>
  /\ transportError = Null
  /\ ledgerDeviceInfo = Null
  /\ transportResponse = Null
  /\ loops = [i \in Loops |-> IdleLoop]
  /\ checks = [k \in Checks |-> IdleCheck]
  /\ open = {}
  /\ leaked = 0
  /\ lastCall = Call("init", <<>>)

\* Number of 'failure' entries of a status code sequence.
RECURSIVE Failures(_)
Failures(s) ==
  IF s = <<>> THEN 0
  ELSE (IF Head(s).ack = "failure" THEN 1 ELSE 0) + Failures(Tail(s))

\* The callers of the status history: any number of reports, of which the
\* 'failure' ones are bounded per rendered history.
ReportStatusCode ==
  \E ack \in Acks, statusCode \in StatusCodeNames :
    /\ ack = "failure" => Failures(statusCodes) < MaxFailureCodes
    /\ handleNewStatusCode(ack, statusCode)

\* The same callers, keeping the history short.
ReportShortStatusCode ==
  \E ack \in Acks, statusCode \in StatusCodeNames :
    /\ Len(statusCodes) < MaxShortHistory
    /\ handleNewStatusCode(ack, statusCode)

\* The provider's answers to the calls of executeLedgerLoop in flight.
ProviderStep(i) ==
  \/ \E model \in MaybeDeviceModels : Create1Resolve(i, model)
  \/ \E err \in CreateErrors : Create1Reject(i, err)
  \/ Close1Resolve(i)
  \/ \E err \in CallErrors, released \in BOOLEAN : Close1Reject(i, err, released)
  \/ \E model \in MaybeDeviceModels : Create2Resolve(i, model)
  \/ \E err \in CreateErrors : Create2Reject(i, err)
  \/ \E address \in Addresses : GetAddressResolve(i, address)
  \/ \E err \in CallErrors : GetAddressReject(i, err)
  \/ Close2Resolve(i)
  \/ \E err \in CallErrors, released \in BOOLEAN : Close2Reject(i, err, released)

\* A step of invocation i: an answer of the provider, or its caller letting
\* go of it.
LoopStep(i) ==
  \/ ProviderStep(i)
  \/ Settle(i)

CheckPairedStep(k) ==
  \/ CheckPairedResolve(k)
  \/ \E err \in CreateErrors : CheckPairedReject(k, err)
  \/ CheckSettle(k)

\* No routine is in flight and no settled promise is held.
Alone ==
  /\ \A j \in Loops : loops[j].pc = "idle"
  /\ \A k \in Checks : checks[k].pc = "idle"

\* Callers that wait for one routine to settle before they call the next.
StartAlone(i) ==
  /\ Alone
  /\ \E tasks \in TaskSets, options \in OptionValues : Start(i, tasks, options)

CheckPairedAlone(k) ==
  /\ Alone
  /\ CheckPairedStart(k)

\* The status history and the import flag, to the full length of the history.
NextCodes ==
  \/ ReportStatusCode
  \/ resetStatusCodes
  \/ cancelImport
  \/ \E val \in BOOLEAN : setIsImporting(val)
  \/ Render

SpecCodes == Init /\ [][NextCodes]_vars

\* The flags and a short status history.
NextFlags ==
  \/ ReportShortStatusCode
  \/ resetStatusCodes
  \/ cancelImport
  \/ \E val \in BOOLEAN : setIsImporting(val)
  \/ \E p \in PairingStatuses : setIsPaired(p)
  \/ Render

SpecFlags == Init /\ [][NextFlags]_vars

\* The device routines, called one at a time.  No handler of the status
\* history or of the flags reads or writes what the routines read or write,
\* so they are left to SpecCodes and SpecFlags.
Next ==
  \/ \E i \in Loops : StartAlone(i)
  \/ \E i \in Loops : LoopStep(i)
  \/ \E k \in Checks : CheckPairedAlone(k)
  \/ \E k \in Checks : CheckPairedStep(k)

Spec == Init /\ [][Next]_vars

\* Invocation i is suspended at an await.
Suspended(i) == loops[i].pc \notin {"idle", "done"}

\* The options the callers below pass.
ImportOptions == {Some([accountIndex |-> Some(0)])}

\* Callers that do not wait for each other: a first invocation is started
\* when none is in flight or held, and a second one while the first is
\* suspended at an await.
StartFirst(i) ==
  /\ \A j \in Loops : loops[j].pc = "idle"
  /\ \E tasks \in TaskSets, options \in ImportOptions : Start(i, tasks, options)

StartSecond(i) ==
  /\ \E j \in Loops \ {i} :
       /\ Suspended(j)
       /\ \A k \in Loops \ {i, j} : loops[k].pc = "idle"
  /\ \E tasks \in TaskSets, options \in ImportOptions : Start(i, tasks, options)

NextOverlap ==
  \/ \E i \in Loops : StartFirst(i)
  \/ \E i \in Loops : StartSecond(i)
  \/ \E i \in Loops : ProviderStep(i)

SpecOverlap == Init /\ [][NextOverlap]_vars

\* An import screen: it raises the import flag, reports status codes, runs
\* one device task at a time while the flag is up, and may be cancelled at
\* any moment, a task in flight or not.
BeginImport ==
  /\ \A j \in Loops : ~Suspended(j)
  /\ setIsImporting(TRUE)

StartImport(i) ==
  /\ getIsImporting
  /\ \A j \in Loops : loops[j].pc = "idle"
  /\ \E tasks \in TaskSets, options \in ImportOptions : Start(i, tasks, options)

NextCancel ==
  \/ BeginImport
  \/ \E i \in Loops : StartImport(i)
  \/ \E i \in Loops : ProviderStep(i)
  \/ ReportShortStatusCode
  \/ cancelImport
  \/ Render

SpecCancel == Init /\ [][NextCancel]_vars

\* ------------------------------------------------------------------ claims
FailureDeviceNotConnected == [ack |-> "failure", statusCode |-> "DeviceNotConnected"]
FailureAppNotOpen == [ack |-> "failure", statusCode |-> "AppNotOpen"]

\* The path 44'/354'/n'/0/0, component by component.
PathOfAccount(n) ==
  <<[n |-> 44, hardened |-> TRUE], [n |-> 354, hardened |-> TRUE],
    [n |-> n, hardened |-> TRUE], [n |-> 0, hardened |-> FALSE],
    [n |-> 0, hardened |-> FALSE]>>

Done(i) == loops[i].pc = "done"
CaughtAt(i, site) == loops[i].caught # Null /\ loops[i].caught[1].site = site
\* No call to the provider made by invocation i was rejected.
ProviderSucceeded(i) ==
  loops[i].caught = Null \/ loops[i].caught[1].site \in {"options", "deviceModel"}

\* C1: the status code sequence (what React holds, the ref, and what the
\* last render captured) never holds more than 50 entries, and right after
\* handleNewStatusCode(ack, statusCode) its head is the entry {ack, statusCode}.
C1_BoundedNewestFirst ==
  /\ Len(statusCodes) <= 50
  /\ Len(statusCodesPending) <= 50
  /\ Len(statusCodesRef) <= 50
  /\ lastCall.op = "handleNewStatusCode" =>
       /\ statusCodesRef # <<>>
       /\ statusCodesRef[1] =
            [ack |-> lastCall.args[1], statusCode |-> lastCall.args[2]]
       /\ statusCodesPending = statusCodesRef

\* C1 witness: a call made on a full history, whose new head differs from
\* the head before it and whose oldest entry was dropped.
C1_Witness ==
  /\ lastCall.op = "handleNewStatusCode"
  /\ Len(statusCodes) = 50
  /\ Len(statusCodesRef) = 50
  /\ statusCodesRef[1] # statusCodes[1]

\* C2: an invocation for get_device_info alone whose create() was rejected
\* with the no-device error ends with TransportError = {failure,
\* DeviceNotConnected}, DeviceInfo as it was before the call, and one create()
\* call made, none for the address phase.
C2_NoDeviceSkipsAddressPhase ==
  \A i \in Loops :
    ( /\ Done(i)
      /\ loops[i].tasks = {"get_device_info"}
      /\ loops[i].caught = Some([site |-> "create1", err |-> NoDeviceError]) )
    => /\ transportError = Some(FailureDeviceNotConnected)
       /\ ledgerDeviceInfo = loops[i].before[1].ledgerDeviceInfo
       /\ loops[i].creates = 1
       /\ loops[i].obtained = {}
       /\ loops[i].derivation = Null

\* C2 witness: such an invocation, made when DeviceInfo held an identity and
\* TransportError held the other status code.
C2_Witness ==
  \E i \in Loops :
    /\ Done(i)
    /\ loops[i].tasks = {"get_device_info"}
    /\ loops[i].caught = Some([site |-> "create1", err |-> NoDeviceError])
    /\ loops[i].before[1].ledgerDeviceInfo # Null
    /\ loops[i].before[1].transportError = Some(FailureAppNotOpen)

\* C3: when no provider call is rejected, an invocation for get_address alone
\* with options {accountIndex: 0} ends with TransportResponse = {success,
\* options {accountIndex: 0}, ReceivedAddress, device {id, productName},
\* body [address]}, the address being what the derivation call made with
\* 44'/354'/0'/0/0 and false resolved to; and every derivation call is made
\* with the path of the configured account index.
C3_Claim ==
  \A i \in Loops :
    /\ ( /\ Done(i)
         /\ loops[i].tasks = {"get_address"}
         /\ loops[i].options = Some([accountIndex |-> Some(0)])
         /\ ProviderSucceeded(i) )
       => /\ loops[i].derivation = Some([path |-> PathOfAccount(0), flag |-> FALSE])
          /\ loops[i].address # Null
          /\ loops[i].transport # Null
          /\ loops[i].transport[1].deviceModel # Null
          /\ transportResponse =
               Some([ack |-> "success",
                     options |-> [accountIndex |-> Some(0)],
                     statusCode |-> "ReceivedAddress",
                     device |-> loops[i].transport[1].deviceModel[1],
                     body |-> <<loops[i].address[1]>>])
    /\ \A n \in AccountIndexes :
         ( /\ loops[i].derivation # Null
           /\ loops[i].options = Some([accountIndex |-> Some(n)]) )
         => loops[i].derivation = Some([path |-> PathOfAccount(n), flag |-> FALSE])

\* C3 on the handles that carry a device identity: the same statement, for
\* the invocations whose second handle has a deviceModel.
C3_WithIdentity ==
  \A i \in Loops :
    /\ ( /\ Done(i)
         /\ loops[i].tasks = {"get_address"}
         /\ loops[i].options = Some([accountIndex |-> Some(0)])
         /\ loops[i].caught = Null )
       => /\ loops[i].derivation = Some([path |-> PathOfAccount(0), flag |-> FALSE])
          /\ loops[i].address # Null
          /\ transportResponse =
               Some([ack |-> "success",
                     options |-> [accountIndex |-> Some(0)],
                     statusCode |-> "ReceivedAddress",
                     device |-> loops[i].transport[1].deviceModel[1],
                     body |-> <<loops[i].address[1]>>])
    /\ \A n \in AccountIndexes :
         ( /\ loops[i].derivation # Null
           /\ loops[i].options = Some([accountIndex |-> Some(n)]) )
         => loops[i].derivation = Some([path |-> PathOfAccount(n), flag |-> FALSE])

\* C4: an invocation for get_address whose create() resolved and whose
\* derivation call was rejected ends with TransportError = {failure,
\* AppNotOpen}; with {accountIndex: 2} the call was made with 44'/354'/2'/0/0.
C4_DerivationFailureIsAppNotOpen ==
  \A i \in Loops :
    (Done(i) /\ CaughtAt(i, "getAddress"))
    => /\ transportError = Some(FailureAppNotOpen)
       /\ loops[i].outcome = "resolved"
       /\ loops[i].options = Some([accountIndex |-> Some(2)])
            => loops[i].derivation =
                 Some([path |-> PathOfAccount(2), flag |-> FALSE])

\* C4 witness: executeLedgerLoop(['get_address'], {accountIndex: 2}) with a
\* rejected derivation call, made when TransportError held the other code.
C4_Witness ==
  \E i \in Loops :
    /\ Done(i)
    /\ CaughtAt(i, "getAddress")
    /\ loops[i].tasks = {"get_address"}
    /\ loops[i].options = Some([accountIndex |-> Some(2)])
    /\ loops[i].before[1].transportError = Some(FailureDeviceNotConnected)

\* C5: no invocation of executeLedgerLoop rejects: whatever the tasks, the
\* options (omitted ones included) and the failures, it completes normally,
\* and a failure it caught shows as the TransportError it wrote.
C5_NeverRejects ==
  \A i \in Loops :
    /\ loops[i].outcome # "rejected"
    /\ Done(i) =>
         /\ loops[i].outcome = "resolved"
         /\ loops[i].caught # Null =>
              transportError =
                Some(IF loops[i].caught[1].err = NoDeviceError
                       THEN FailureDeviceNotConnected ELSE FailureAppNotOpen)

\* C5 witness: get_address requested with the options omitted; the read of
\* accountIndex threw and the invocation still completed normally.
C5_Witness ==
  \E i \in Loops :
    /\ Done(i)
    /\ loops[i].options = Null
    /\ "get_address" \in loops[i].tasks
    /\ CaughtAt(i, "options")
    /\ loops[i].outcome = "resolved"

\* C6: once an invocation has completed, no handle it obtained from create()
\* is still open, whether it succeeded or caught an error (a handle whose
\* close() call itself was rejected set aside).
C6_Claim ==
  \A i \in Loops :
    (Done(i) /\ ~CaughtAt(i, "close1") /\ ~CaughtAt(i, "close2"))
    => loops[i].obtained \cap open = {}

\* C7: right after cancelImport(), getIsImporting() returns false, the state
\* React holds for the flag is false, and the status code sequence is empty.
C7_CancelImportClears ==
  lastCall.op = "cancelImport" =>
    /\ getIsImporting = FALSE
    /\ isImportingPending = FALSE
    /\ statusCodesRef = <<>>
    /\ statusCodesPending = <<>>

\* C7 witness: cancelImport() called while the rendered flag was true and the
\* rendered history was full.
C7_Witness ==
  /\ lastCall.op = "cancelImport"
  /\ isImporting = TRUE
  /\ Len(statusCodes) = 50

\* C8: a step of checkPaired() changes none of PairingStatus, ImportingFlag,
\* the status codes, TransportError, TransportResponse and DeviceInfo, leaves
\* nothing behind at the provider, and the call returns false exactly when
\* create() was rejected.
C8_Claim ==
  [][(lastCall'.op = "checkPaired" /\ lastCall'.args[2] # "settle")
       => /\ UNCHANGED <<uiVars, slotVars>>
          /\ open' = open
          /\ \A k \in Checks :
               checks'[k].pc = "done" =>
                 checks'[k].returned = Some(checks'[k].create # "rejected")]_vars

\* C8 without the provider's side: the six slots are unchanged and the value
\* returned is false exactly when create() was rejected.
C8_SlotsAndResult ==
  [][(lastCall'.op = "checkPaired" /\ lastCall'.args[2] # "settle")
       => /\ UNCHANGED <<uiVars, slotVars>>
          /\ \A k \in Checks :
               checks'[k].pc = "done" =>
                 checks'[k].returned = Some(checks'[k].create # "rejected")]_vars

\* C9: resetStatusCodes() empties the status code sequence and leaves the
\* import flag, the pairing status, TransportError, TransportResponse and
\* DeviceInfo as they were.
C9_ResetStatusCodesFrame ==
  [][lastCall'.op = "resetStatusCodes"
       => /\ statusCodesRef' = <<>>
          /\ statusCodesPending' = <<>>
          /\ UNCHANGED <<isImporting, isImportingPending, isImportingRef,
                         isPaired, isPairedPending, isPairedRef,
                         slotVars>>]_vars

\* C9 witness: resetStatusCodes() called with an import in progress, the
\* device paired and a status code in the rendered history.
C9_Witness ==
  /\ lastCall.op = "resetStatusCodes"
  /\ isImportingRef = TRUE
  /\ isPairedRef = "paired"
  /\ statusCodes # <<>>
  /\ statusCodesRef = <<>>

\* C10: the state React holds and the ref of PairingStatus and ImportingFlag
\* are equal after every write; right after setIsImporting(v) getIsImporting()
\* returns v, right after setIsPaired(p) the ref holds p, and after a
\* re-render the rendered value equals the ref.
C10_MirrorsInLockstep ==
  /\ isImportingPending = isImportingRef
  /\ isPairedPending = isPairedRef
  /\ lastCall.op = "setIsImporting" => getIsImporting = lastCall.args[1]
  /\ lastCall.op = "setIsPaired" => isPairedRef = lastCall.args[1]
  /\ lastCall.op = "render" =>
       /\ isImporting = isImportingRef
       /\ isPaired = isPairedRef

\* C10 witness: setIsPaired('paired') called before the re-render that
\* setIsImporting(true) asked for: both rendered values lag, both refs are
\* current.
C10_Witness ==
  /\ lastCall = Call("setIsPaired", <<"paired">>)
  /\ isPaired = "unknown"
  /\ isPairedRef = "paired"
  /\ isImporting = FALSE
  /\ isImportingRef = TRUE

\* The sequence with entry e prepended, cut to the 50-entry bound.
Prepended(e, s) ==
  LET t == <<e>> \o s
  IN IF Len(t) > 50 THEN SubSeq(t, 1, 50) ELSE t

\* C11: handleNewStatusCode(ack, statusCode) prepends {ack, statusCode} to
\* the current status code sequence, whether or not a re-render happened
\* since the last write: two calls in a row both remain, and a call made
\* right after resetStatusCodes() or cancelImport() leaves exactly one entry.
C11_Claim ==
  [][lastCall'.op = "handleNewStatusCode"
       => /\ statusCodesRef' =
               Prepended([ack |-> lastCall'.args[1],
                          statusCode |-> lastCall'.args[2]], statusCodesRef)
          /\ statusCodesPending' = statusCodesRef'
          /\ lastCall.op \in {"resetStatusCodes", "cancelImport"}
               => Len(statusCodesRef') = 1]_vars

\* C11 for the calls made once the last write was rendered: the same
\* statement, when the rendered sequence is the current one.
C11_AfterRender ==
  [][(lastCall'.op = "handleNewStatusCode" /\ statusCodes = statusCodesRef)
       => /\ statusCodesRef' =
               Prepended([ack |-> lastCall'.args[1],
                          statusCode |-> lastCall'.args[2]], statusCodesRef)
          /\ statusCodesPending' = statusCodesRef']_vars

\* The options of a call that configure no account index: omitted, or an
\* object without accountIndex.
NoAccountIndex == {Null, Some([accountIndex |-> Null])}

\* C12: an invocation that requests get_address with no account index
\* configured (options without accountIndex, or options omitted), whose
\* provider calls all succeed on handles that carry an identity, makes the
\* derivation call with 44'/354'/0'/0/0 and stores the success response that
\* combines the options with the result.
C12_Claim ==
  \A i \in Loops :
    ( /\ Done(i)
      /\ "get_address" \in loops[i].tasks
      /\ loops[i].options \in NoAccountIndex
      /\ loops[i].caught = Null \/ CaughtAt(i, "options") )
    => /\ loops[i].derivation = Some([path |-> PathOfAccount(0), flag |-> FALSE])
       /\ loops[i].address # Null
       /\ transportResponse # Null
       /\ transportResponse[1].ack = "success"
       /\ transportResponse[1].statusCode = "ReceivedAddress"
       /\ transportResponse[1].body = <<loops[i].address[1]>>
       /\ loops[i].options # Null =>
            transportResponse[1].options = loops[i].options[1]

\* C12 for an options object without accountIndex: the same statement, when
\* the options are given.
C12_OptionsGiven ==
  \A i \in Loops :
    ( /\ Done(i)
      /\ "get_address" \in loops[i].tasks
      /\ loops[i].options = Some([accountIndex |-> Null])
      /\ loops[i].caught = Null )
    => /\ loops[i].derivation = Some([path |-> PathOfAccount(0), flag |-> FALSE])
       /\ loops[i].address # Null
       /\ transportResponse =
            Some([ack |-> "success",
                  options |-> [accountIndex |-> Null],
                  statusCode |-> "ReceivedAddress",
                  device |-> loops[i].transport[1].deviceModel[1],
                  body |-> <<loops[i].address[1]>>])

\* The TransportError handleErrors records for a caught error.
ClassifiedAs(err) ==
  IF err = NoDeviceError THEN FailureDeviceNotConnected ELSE FailureAppNotOpen

\* C13: an invocation whose device-info phase failed (create() rejected with
\* any error, or close() rejected after the identity was read) has recorded
\* a TransportError and is over: it made the one create() call, made no
\* derivation call and wrote no TransportResponse, whatever the tasks.
C13_InfoFailureSkipsAddressPhase ==
  \A i \in Loops :
    (CaughtAt(i, "create1") \/ CaughtAt(i, "close1"))
    => /\ Done(i)
       /\ loops[i].outcome = "resolved"
       /\ loops[i].noDevice
       /\ transportError = Some(ClassifiedAs(loops[i].caught[1].err))
       /\ loops[i].creates = 1
       /\ loops[i].derivation = Null
       /\ loops[i].address = Null
       /\ transportResponse = loops[i].before[1].transportResponse

\* C13 witness: both tasks requested with an account index, the identity
\* read and stored, close() rejected, and no TransportError held before.
C13_Witness ==
  \E i \in Loops :
    /\ CaughtAt(i, "close1")
    /\ loops[i].tasks = {"get_device_info", "get_address"}
    /\ loops[i].options = Some([accountIndex |-> Some(1)])
    /\ ledgerDeviceInfo # Null
    /\ loops[i].before[1].ledgerDeviceInfo = Null
    /\ loops[i].before[1].transportError = Null

\* C14: every step in which an invocation catches an error writes a
\* TransportError {failure, code}, where code is DeviceNotConnected if the
\* caught error carries the id 'NoDevice' and AppNotOpen if it does not; and
\* TransportError never holds anything but one of those two records.
C14_TwoWayClassification ==
  [][/\ \A i \in Loops :
          (loops'[i].caught # Null /\ loops'[i].caught # loops[i].caught)
          => /\ transportError' # Null
             /\ transportError'[1].ack = "failure"
             /\ transportError'[1].statusCode = "DeviceNotConnected"
                  <=> loops'[i].caught[1].err.id = "NoDevice"
             /\ transportError'[1].statusCode = "AppNotOpen"
                  <=> loops'[i].caught[1].err.id # "NoDevice"
     /\ transportError' \in {Null, Some(FailureDeviceNotConnected),
                             Some(FailureAppNotOpen)}]_vars

\* C14 witness: the second create() of an invocation was rejected with the
\* no-device error while TransportError held AppNotOpen from an earlier
\* failure, and now holds DeviceNotConnected.
C14_Witness ==
  \E i \in Loops :
    /\ lastCall = LoopCall(i, "create2")
    /\ loops[i].caught = Some([site |-> "create2", err |-> NoDeviceError])
    /\ loops[i].before[1].transportError = Some(FailureAppNotOpen)
    /\ transportError = Some(FailureDeviceNotConnected)

\* C15: cancelImport() called while an invocation is suspended at an await
\* changes the import flag and the status codes and nothing else: the three
\* transport slots, the invocations and the open handles are as they were;
\* and from the state it leaves, the suspended invocation can take its next
\* step, a step that writes TransportError included.
C15_CancelDoesNotStopTheTask ==
  /\ [][lastCall'.op = "cancelImport"
          => /\ isImportingRef' = FALSE
             /\ statusCodesRef' = <<>>
             /\ UNCHANGED <<slotVars, asyncVars, isPaired, isPairedPending,
                            isPairedRef>>]_vars
  /\ [](\A i \in Loops :
          (lastCall.op = "cancelImport" /\ Suspended(i))
          => /\ ENABLED ProviderStep(i)
             /\ ENABLED (ProviderStep(i) /\ loops'[i].caught # Null
                           /\ transportError' # Null))

\* C15 witness: the import flag was up when the invocation was started and
\* is down now, so cancelImport() was called while the invocation was in
\* flight; the derivation call has resolved since, and the invocation has
\* just stored the success response.
C15_Witness ==
  \E i \in Loops :
    /\ lastCall = LoopCall(i, "getAddress")
    /\ loops[i].address # Null
    /\ getIsImporting = FALSE
    /\ transportResponse # Null
    /\ transportResponse[1].statusCode = "ReceivedAddress"
    /\ transportResponse[1].body = <<loops[i].address[1]>>

\* C16: invocations do not exclude each other.  A call is accepted whatever
\* the other invocations are doing and reaches its first create() at once; a
\* suspended invocation can always take its next step; a step of one
\* invocation leaves the other invocations as they were; and what a step
\* writes to TransportResponse, TransportError and DeviceInfo is decided by
\* the invocation that takes it alone, whatever the slot held, so that each
\* slot holds the last value written to it.
C16_LastWriterWins ==
  /\ [](\A i \in Loops :
          /\ loops[i].pc = "idle" =>
               ENABLED (\E tasks \in TaskSets, options \in ImportOptions :
                          Start(i, tasks, options))
          /\ Suspended(i) => ENABLED ProviderStep(i))
  /\ [][\A i \in Loops :
          (lastCall'.op = "executeLedgerLoop" /\ lastCall'.args[1] = i)
          => /\ \A j \in Loops \ {i} : loops'[j] = loops[j]
             /\ lastCall'.args[2] = "start" =>
                  /\ loops'[i].pc \in {"await_create1", "await_create2"}
                  /\ loops'[i].creates = 1
             /\ transportResponse' =
                  IF loops'[i].pc = "await_getAddress"
                    THEN Some(GettingAddress(AccountIndexOf(loops'[i].options[1])))
                  ELSE IF loops'[i].address # Null /\ loops[i].address = Null
                    THEN Some(SuccessResponse(loops'[i].options[1],
                           handleGetAddressResult(loops'[i].transport[1],
                                                  loops'[i].address[1])))
                  ELSE transportResponse
             /\ ledgerDeviceInfo' =
                  IF /\ lastCall'.args[2] = "create1"
                     /\ loops'[i].transport # Null
                     /\ loops'[i].transport[1].deviceModel # Null
                    THEN loops'[i].transport[1].deviceModel
                    ELSE ledgerDeviceInfo
             /\ transportError' =
                  IF loops'[i].caught # Null /\ loops'[i].caught # loops[i].caught
                    THEN Some(ClassifiedAs(loops'[i].caught[1].err))
                    ELSE transportError]_vars

\* C16 witness: invocation j (get_device_info) was started while invocation i
\* was suspended in its derivation call, both have completed, TransportResponse
\* is the success response of i, written after j was started, and DeviceInfo
\* is the identity j read, which is not the one in the response.
C16_Witness ==
  \E i \in Loops, j \in Loops :
    /\ i # j
    /\ Done(i) /\ loops[i].caught = Null /\ loops[i].address # Null
    /\ Done(j) /\ loops[j].caught = Null /\ loops[j].tasks = {"get_device_info"}
    /\ loops[j].before[1].transportResponse =
         Some(GettingAddress(AccountIndexOf(loops[i].options[1])))
    /\ transportResponse =
         Some(SuccessResponse(loops[i].options[1],
                handleGetAddressResult(loops[i].transport[1], loops[i].address[1])))
    /\ loops[j].transport[1].deviceModel # Null
    /\ ledgerDeviceInfo = loops[j].transport[1].deviceModel
    /\ ledgerDeviceInfo[1] # transportResponse[1].device

\* C17: in an invocation that requests both tasks the two sessions follow
\* each other: of the handles it obtained at most one is open at any time,
\* the first one is closed by the time the second create() is called, and
\* DeviceInfo holds the identity of the first handle while its close() is
\* awaited.
C17_SessionsAreSequential ==
  \A i \in Loops :
    loops[i].tasks = {"get_device_info", "get_address"}
    => /\ Cardinality(loops[i].obtained \cap open) <= 1
       /\ loops[i].creates = 2 => HandleId("loop", i, 1) \notin open
       /\ ( /\ loops[i].pc = "await_close1"
            /\ loops[i].transport[1].deviceModel # Null )
          => ledgerDeviceInfo = loops[i].transport[1].deviceModel

\* C17 witness: both tasks requested with no identity stored before; both
\* handles were obtained, the second one is the only one open and its
\* close() is awaited.
C17_Witness ==
  \E i \in Loops :
    /\ loops[i].tasks = {"get_device_info", "get_address"}
    /\ loops[i].pc = "await_close2"
    /\ loops[i].obtained = {HandleId("loop", i, 1), HandleId("loop", i, 2)}
    /\ loops[i].obtained \cap open = {HandleId("loop", i, 2)}
    /\ loops[i].before[1].ledgerDeviceInfo = Null
    /\ ledgerDeviceInfo # Null

\* C18: TransportError changes only in a step in which an invocation catches
\* an error; once it holds a failure it holds one in every later state; and
\* an invocation that completed without catching anything leaves it as it
\* was when the call was made.
C18_ErrorIsNeverCleared ==
  /\ [][/\ transportError # Null => transportError' # Null
        /\ transportError' # transportError =>
             \E i \in Loops : /\ lastCall'.op = "executeLedgerLoop"
                              /\ lastCall'.args[1] = i
                              /\ loops'[i].caught # Null
                              /\ loops'[i].caught # loops[i].caught]_vars
  /\ [](\A i \in Loops :
          (Done(i) /\ loops[i].caught = Null)
          => transportError = loops[i].before[1].transportError)

\* C18 witness: an invocation made while TransportError held a failure has
\* completed with every step succeeding; TransportResponse is its success
\* response and TransportError still holds the earlier failure.
C18_Witness ==
  \E i \in Loops :
    /\ Done(i)
    /\ loops[i].caught = Null
    /\ loops[i].tasks = {"get_device_info", "get_address"}
    /\ loops[i].before[1].transportError = Some(FailureDeviceNotConnected)
    /\ transportError = Some(FailureDeviceNotConnected)
    /\ loops[i].address # Null
    /\ transportResponse =
         Some(SuccessResponse(loops[i].options[1],
                handleGetAddressResult(loops[i].transport[1], loops[i].address[1])))
    /\ loops[i].obtained \cap open = {}

====
